---------------------------- MODULE Spec2Model ----------------------------
(***************************************************************************)
(* A model of scripts/analyze_coverage.py: parse_lcov reads an LCOV        *)
(* tracefile line by line into a per-file record, and main prints a        *)
(* three-part report from it.  Lines are strings; the string operations    *)
(* the parser uses (strip, startswith, slicing, split, int) are computed   *)
(* character by character.                                                 *)
(***************************************************************************)
EXTENDS Integers, Sequences, FiniteSets, TLC

VARIABLES
    pc,             \* where main is: start, parse, partA, partB, partC, done, error
    error,          \* the exception that ended the run ("" when none)
    tracefile,      \* the lines of coverage/lcov.info read so far
    files,          \* the defaultdict: path -> [lines, total_lines, covered_lines]
    keys,           \* the insertion order of the dict's keys
    current_file,   \* <<>> for None, <<path>> otherwise
    in_lf,
    lf_count,
    lh_count,
    total_lines,    \* main's running totals
    total_covered,
    overall_coverage,
    needed_for_80,
    file_coverage,  \* the list Part C sorts
    stdout          \* what main has printed, one entry per print call

vars == <<pc, error, tracefile, files, keys, current_file, in_lf,
          lf_count, lh_count, total_lines, total_covered, overall_coverage,
          needed_for_80, file_coverage, stdout>>

parserVars == <<files, keys, current_file, in_lf, lf_count, lh_count>>
reportVars ==
    <<total_lines, total_covered, overall_coverage, needed_for_80,
      file_coverage, stdout>>

-----------------------------------------------------------------------------
(* Bounds of the model. *)

\* longest tracefile of arbitrary lines
MaxLines == 4
\* most records in a tracefile made of whole records
MaxRecords == 3
\* most files in a parsed collection handed to the reporter
MaxFiles == 6

-----------------------------------------------------------------------------
(* Strings. *)

Char(s, i) == SubSeq(s, i, i)

\* s[n:]
SliceFrom(s, n) == SubSeq(s, n + 1, Len(s))

\* s[:n]
SliceTo(s, n) == SubSeq(s, 1, IF Len(s) < n THEN Len(s) ELSE n)

startswith(s, prefix) ==
    Len(s) >= Len(prefix) /\ SubSeq(s, 1, Len(prefix)) = prefix

IsSpace(c) == c \in {" ", "\t", "\n", "\r"}

RECURSIVE lstrip(_)
lstrip(s) ==
    IF Len(s) > 0 /\ IsSpace(Char(s, 1)) THEN lstrip(SliceFrom(s, 1)) ELSE s

RECURSIVE rstrip(_)
rstrip(s) ==
    IF Len(s) > 0 /\ IsSpace(Char(s, Len(s)))
    THEN rstrip(SubSeq(s, 1, Len(s) - 1))
    ELSE s

strip(s) == rstrip(lstrip(s))

\* s.split(sep) for a one-character separator
RECURSIVE splitFrom(_, _, _)
splitFrom(s, sep, acc) ==
    IF Len(s) = 0 THEN <<acc>>
    ELSE IF Char(s, 1) = sep
         THEN <<acc>> \o splitFrom(SliceFrom(s, 1), sep, "")
         ELSE splitFrom(SliceFrom(s, 1), sep, acc \o Char(s, 1))

split(s, sep) == splitFrom(s, sep, "")

DigitChars == "0123456789"

IsDigit(c) == \E i \in 1..10 : Char(DigitChars, i) = c

DigitVal(c) == (CHOOSE i \in 1..10 : Char(DigitChars, i) = c) - 1

RECURSIVE AllDigits(_)
AllDigits(s) ==
    Len(s) = 0 \/ (IsDigit(Char(s, 1)) /\ AllDigits(SliceFrom(s, 1)))

RECURSIVE DigitsVal(_, _)
DigitsVal(s, acc) ==
    IF Len(s) = 0 THEN acc
    ELSE DigitsVal(SliceFrom(s, 1), 10 * acc + DigitVal(Char(s, 1)))

\* the text int() is given, without surrounding blanks and without its sign
Unsigned(s) ==
    LET t == strip(s)
    IN IF Len(t) > 0 /\ Char(t, 1) \in {"+", "-"} THEN SliceFrom(t, 1) ELSE t

\* int(s) returns (it raises ValueError otherwise); digit-group underscores
\* and non-ASCII digits are left out of the model
IntOk(s) == Len(Unsigned(s)) > 0 /\ AllDigits(Unsigned(s))

\* int(s), where IntOk(s)
int(s) ==
    LET t == strip(s)
        v == DigitsVal(Unsigned(s), 0)
    IN IF Len(t) > 0 /\ Char(t, 1) = "-" THEN 0 - v ELSE v

\* characters in code-point order, for comparing paths
CodeOrder == "./0123456789_abcdefghijklmnopqrstuvwxyz"

Ord(c) == CHOOSE i \in 1..Len(CodeOrder) : Char(CodeOrder, i) = c

\* s < t as Python compares str
RECURSIVE StrLess(_, _)
StrLess(s, t) ==
    IF Len(t) = 0 THEN FALSE
    ELSE IF Len(s) = 0 THEN TRUE
    ELSE IF Char(s, 1) = Char(t, 1) THEN StrLess(SliceFrom(s, 1), SliceFrom(t, 1))
    ELSE Ord(Char(s, 1)) < Ord(Char(t, 1))

\* s.replace(old, '')
RECURSIVE RemoveAll(_, _)
RemoveAll(s, old) ==
    IF Len(s) = 0 THEN s
    ELSE IF startswith(s, old) THEN RemoveAll(SliceFrom(s, Len(old)), old)
    ELSE Char(s, 1) \o RemoveAll(SliceFrom(s, 1), old)

-----------------------------------------------------------------------------
(* parse_lcov. *)

None == <<>>

\* the truth value Python gives current_file: None and '' are false
Truthy(cf) == cf # None /\ cf[1] # ""

NewEntry == [lines |-> <<>>, total_lines |-> 0, covered_lines |-> 0]

\* files[path]: the defaultdict inserts a fresh entry for a missing key
Touch(fs, path) ==
    IF path \in DOMAIN fs THEN fs
    ELSE [k \in DOMAIN fs \cup {path} |-> IF k = path THEN NewEntry ELSE fs[k]]

TouchKeys(ks, fs, path) ==
    IF path \in DOMAIN fs THEN ks ELSE Append(ks, path)

\* m[k] = v on a dict
DictSet(m, k, v) ==
    [x \in DOMAIN m \cup {k} |-> IF x = k THEN v ELSE m[x]]

\* the parser's locals before the first line
ParserStart ==
    [files |-> <<>>, keys |-> <<>>, current_file |-> None, in_lf |-> FALSE,
     lf_count |-> 0, lh_count |-> 0, error |-> ""]

ValueError(st) == [st EXCEPT !.error = "ValueError"]

\* OnSF with the counters reset for the new record
OnSFResetting(st, line) ==
    [st EXCEPT !.current_file = <<SliceFrom(line, 3)>>, !.in_lf = FALSE,
               !.lf_count = 0, !.lh_count = 0]

OnSF(st, line) ==
    [st EXCEPT !.current_file = <<SliceFrom(line, 3)>>, !.in_lf = FALSE]

OnLF(st, line) ==
    IF IntOk(SliceFrom(line, 3))
    THEN [st EXCEPT !.lf_count = int(SliceFrom(line, 3)), !.in_lf = TRUE]
    ELSE ValueError(st)

\* OnLH with the parse failure swallowed
OnLHLenient(st, line) ==
    IF IntOk(SliceFrom(line, 3))
    THEN [st EXCEPT !.lh_count = int(SliceFrom(line, 3))]
    ELSE st

OnLH(st, line) ==
    IF IntOk(SliceFrom(line, 3))
    THEN [st EXCEPT !.lh_count = int(SliceFrom(line, 3))]
    ELSE ValueError(st)

\* Commits without the in_lf test
CommitsWithoutLF(st) == Truthy(st.current_file)

\* whether end_of_record stores the counters
Commits(st) == Truthy(st.current_file) /\ st.in_lf

\* OnEndOfRecord adding the counters to what the file already holds
OnEndOfRecordAdding(st) ==
    IF Commits(st)
    THEN LET path == st.current_file[1]
             fs == Touch(st.files, path)
         IN [st EXCEPT !.files = [fs EXCEPT
                           ![path].total_lines = fs[path].total_lines + st.lf_count,
                           ![path].covered_lines = fs[path].covered_lines + st.lh_count],
                       !.keys = TouchKeys(st.keys, st.files, path),
                       !.in_lf = FALSE]
    ELSE [st EXCEPT !.in_lf = FALSE]

OnEndOfRecord(st) ==
    IF Commits(st)
    THEN LET path == st.current_file[1]
             fs == Touch(st.files, path)
         IN [st EXCEPT !.files = [fs EXCEPT ![path].total_lines = st.lf_count,
                                            ![path].covered_lines = st.lh_count],
                       !.keys = TouchKeys(st.keys, st.files, path),
                       !.in_lf = FALSE]
    ELSE [st EXCEPT !.in_lf = FALSE]

\* whether a DA line is looked at
ReadsDA(st) == Truthy(st.current_file)

OnDA(st, line) ==
    IF ReadsDA(st)
    THEN LET parts == split(SliceFrom(line, 3), ",")
             path == st.current_file[1]
         IN IF ~IntOk(parts[1]) THEN ValueError(st)
            ELSE IF Len(parts) > 1 /\ ~IntOk(parts[2]) THEN ValueError(st)
            ELSE LET line_num == int(parts[1])
                     hit_count == IF Len(parts) > 1 THEN int(parts[2]) ELSE 0
                     fs == Touch(st.files, path)
                 IN [st EXCEPT
                       !.files = [fs EXCEPT ![path].lines =
                                     DictSet(fs[path].lines, line_num, hit_count)],
                       !.keys = TouchKeys(st.keys, st.files, path)]
    ELSE st

\* one iteration of the for loop
ParseLine(st, raw) ==
    LET line == strip(raw)
    IN IF startswith(line, "SF:") THEN OnSF(st, line)
       ELSE IF startswith(line, "LF:") THEN OnLF(st, line)
       ELSE IF startswith(line, "LH:") THEN OnLH(st, line)
       ELSE IF startswith(line, "end_of_record") THEN OnEndOfRecord(st)
       ELSE IF startswith(line, "DA:") THEN OnDA(st, line)
       ELSE st

\* the locals after the first n lines of f, stopping at the first exception
RECURSIVE parse_upto(_, _)
parse_upto(f, n) ==
    IF n = 0 THEN ParserStart
    ELSE LET st == parse_upto(f, n - 1)
         IN IF st.error # "" THEN st ELSE ParseLine(st, f[n])

parse_lcov(f) == parse_upto(f, Len(f))

\* the parser's locals, as one record
Locals ==
    [files |-> files, keys |-> keys, current_file |-> current_file,
     in_lf |-> in_lf, lf_count |-> lf_count, lh_count |-> lh_count,
     error |-> error]


-----------------------------------------------------------------------------
(* main: the report. *)

\* the prefix main removes from the paths it prints
HomePrefix == "/Users/eric/Dev/energy-tracker/"

\* the width of the File column
NameWidth == 40

\* how many files Part C prints
LowestShown == 5

\* a quotient of two integers, the denominator positive: the value of a float
\* quotient, without its rounding
Ratio(n, d) == [num |-> n, den |-> d]

RatEq(a, b) == a.num * b.den = b.num * a.den

RatLess(a, b) == a.num * b.den < b.num * a.den

\* (covered / total * 100) if total > 0 else 0
Percent(covered, total) ==
    IF total > 0 THEN Ratio(covered * 100, total) ELSE Ratio(0, 1)

\* int(total * 0.8): int() drops the fraction, towards zero (the float product
\* has the integer part of 4 * total / 5 for every count a tracefile can hold)
IntOf80Percent(total) ==
    IF total >= 0 THEN (4 * total) \div 5 ELSE 0 - ((4 * (0 - total)) \div 5)

\* NeededFor80 with the gap clamped at zero
NeededFor80Clamped(covered, total) ==
    IF IntOf80Percent(total) - covered > 0 THEN IntOf80Percent(total) - covered ELSE 0

\* int(total * 0.8) - covered
NeededFor80(covered, total) == IntOf80Percent(total) - covered

\* max(0, n) left out
Unclamped(n) == n

\* max(0, n)
Max0(n) == IF n > 0 THEN n ELSE 0

\* sorted(names)
RECURSIVE sorted(_)
sorted(names) ==
    IF names = {} THEN <<>>
    ELSE LET least == CHOOSE a \in names : \A b \in names \ {a} : StrLess(a, b)
         IN <<least>> \o sorted(names \ {least})

\* the row main prints for one file
Row(fs, file) ==
    LET covered == fs[file].covered_lines
        total == fs[file].total_lines
    IN [kind |-> "row",
        name |-> SliceTo(RemoveAll(file, HomePrefix), NameWidth),
        covered |-> covered, total |-> total,
        coverage |-> Percent(covered, total),
        needed |-> NeededFor80(covered, total)]

\* the rows of Part A, in the order of sorted(files.keys())
RECURSIVE Rows(_, _)
Rows(fs, names) ==
    IF names = <<>> THEN <<>>
    ELSE <<Row(fs, Head(names))>> \o Rows(fs, Tail(names))

\* Accumulate with the files without lines left out
RECURSIVE AccumulatePositive(_, _, _)
AccumulatePositive(fs, names, f) ==
    IF names = <<>> THEN 0
    ELSE (IF fs[Head(names)].total_lines > 0 THEN fs[Head(names)][f] ELSE 0)
         + AccumulatePositive(fs, Tail(names), f)

\* the sum of field f over the files, as the loop accumulates it
RECURSIVE Accumulate(_, _, _)
Accumulate(fs, names, f) ==
    IF names = <<>> THEN 0
    ELSE fs[Head(names)][f] + Accumulate(fs, Tail(names), f)

\* whether Part C lists a file
Listed(data) == data.total_lines > 0

\* the tuples appended to file_coverage, in the order of files.items()
RECURSIVE Candidates(_, _)
Candidates(fs, ks) ==
    IF ks = <<>> THEN <<>>
    ELSE LET data == fs[Head(ks)]
             rest == Candidates(fs, Tail(ks))
         IN IF Listed(data)
            THEN <<[file |-> Head(ks),
                    coverage |-> Ratio(data.covered_lines, data.total_lines),
                    uncovered |-> data.total_lines - data.covered_lines]>> \o rest
            ELSE rest

\* InsertSorted putting x before the entries of equal coverage
RECURSIVE InsertBeforeEqual(_, _)
InsertBeforeEqual(list, x) ==
    IF list = <<>> THEN <<x>>
    ELSE IF ~RatLess(Head(list).coverage, x.coverage) THEN <<x>> \o list
    ELSE <<Head(list)>> \o InsertBeforeEqual(Tail(list), x)

\* where a stable ascending sort puts x in an already sorted list
RECURSIVE InsertSorted(_, _)
InsertSorted(list, x) ==
    IF list = <<>> THEN <<x>>
    ELSE IF RatLess(x.coverage, Head(list).coverage) THEN <<x>> \o list
    ELSE <<Head(list)>> \o InsertSorted(Tail(list), x)

\* list.sort(key=lambda x: x[1])
RECURSIVE SortByCoverage(_)
SortByCoverage(list) ==
    IF list = <<>> THEN <<>>
    ELSE InsertSorted(SortByCoverage(SubSeq(list, 1, Len(list) - 1)), list[Len(list)])

\* file_coverage[:5]
Shown(list) == SubSeq(list, 1, IF Len(list) < LowestShown THEN Len(list) ELSE LowestShown)

RECURSIVE LowestLines(_)
LowestLines(list) ==
    IF list = <<>> THEN <<>>
    ELSE <<[kind |-> "lowest",
            name |-> RemoveAll(Head(list).file, HomePrefix),
            coverage |-> Ratio(Head(list).coverage.num * 100, Head(list).coverage.den),
            uncovered |-> Head(list).uncovered]>> \o LowestLines(Tail(list))

-----------------------------------------------------------------------------
(* The inputs. *)

\* the lines a tracefile of arbitrary lines is made of
Lines ==
    {"SF:a", "SF:", "LF:2", "LF:x", "LH:1", "LH:", "end_of_record",
     "DA:1,1", "DA:7", "DA:x,1", "DA:1,x", "TN:t"}

\* the bodies of the records a tracefile of whole records is made of
Bodies ==
    {<<>>, <<"LH:3">>, <<"LF:2">>, <<"DA:1,1">>, <<"DA:1,0", "LF:5", "LH:4">>}

\* the lines the bodies are made of
BodyLines == UNION {{b[i] : i \in 1..Len(b)} : b \in Bodies}

RecordPaths == {"a", "b"}

IsPrefix(s, t) == Len(s) <= Len(t) /\ SubSeq(t, 1, Len(s)) = s

\* the index of the last of the first n lines of f that starts with prefix
RECURSIVE LastIndexIn(_, _, _)
LastIndexIn(f, n, prefix) ==
    IF n = 0 THEN 0
    ELSE IF startswith(strip(f[n]), prefix) THEN n
    ELSE LastIndexIn(f, n - 1, prefix)

\* the index of the last line of f that starts with prefix (0 when none)
LastIndex(f, prefix) == LastIndexIn(f, Len(f), prefix)

\* how many lines of f start with prefix
RECURSIVE Count(_, _)
Count(f, prefix) ==
    IF f = <<>> THEN 0
    ELSE Count(Tail(f), prefix) + (IF startswith(strip(Head(f)), prefix) THEN 1 ELSE 0)

\* f ends inside a record
InRecord(f) == LastIndex(f, "SF:") > LastIndex(f, "end_of_record")

\* the lines of the record f ends in, after its SF line
OpenBody(f) == SubSeq(f, LastIndex(f, "SF:") + 1, Len(f))

\* the lines that may follow f in a tracefile of at most MaxRecords whole records
RecordLines(f) ==
    IF InRecord(f)
    THEN {l \in BodyLines :
             \E b \in Bodies : IsPrefix(Append(OpenBody(f), l), b)}
         \cup (IF OpenBody(f) \in Bodies THEN {"end_of_record"} ELSE {})
    ELSE IF Count(f, "SF:") < MaxRecords
         THEN {"SF:" \o p : p \in RecordPaths}
         ELSE {}

\* the paths of the collections handed to the reporter
PathName(i) == Char("abcdefghij", i) \o ".py"

\* total_lines and covered_lines of a file
FileCounts == {<<0, 1>>, <<2, 1>>, <<50, 10>>, <<-1, -1>>}

\* the insertion orders tried: ascending and descending path
Orders(n) == {[i \in 1..n |-> PathName(i)], [i \in 1..n |-> PathName(n + 1 - i)]}

Collections(n) ==
    {[k \in {PathName(i) : i \in 1..n} |->
        [lines |-> <<>>, total_lines |-> c[k][1], covered_lines |-> c[k][2]]] :
     c \in [{PathName(i) : i \in 1..n} -> FileCounts]}

-----------------------------------------------------------------------------
(* The program. *)

InitLocals ==
    /\ files = ParserStart.files
    /\ keys = ParserStart.keys
    /\ current_file = ParserStart.current_file
    /\ in_lf = ParserStart.in_lf
    /\ lf_count = ParserStart.lf_count
    /\ lh_count = ParserStart.lh_count
    /\ error = ""

InitReportVars ==
    /\ total_lines = 0
    /\ total_covered = 0
    /\ overall_coverage = Ratio(0, 1)
    /\ needed_for_80 = 0
    /\ file_coverage = <<>>
    /\ stdout = <<>>

Init ==
    /\ pc = "start"
    /\ tracefile = <<>>
    /\ InitLocals
    /\ InitReportVars

\* the reporter alone, on a collection parse_lcov can return: the one it
\* returns for the records SF:k, LF:total, LH:covered, end_of_record, one per
\* key in the insertion order
InitReport ==
    /\ pc = "partA"
    /\ tracefile = <<>>
    /\ \E n \in 0..MaxFiles :
          /\ keys \in Orders(n)
          /\ files \in Collections(n)
    /\ current_file = None
    /\ in_lf = FALSE
    /\ lf_count = 0
    /\ lh_count = 0
    /\ error = ""
    /\ InitReportVars

\* Open with the report's title printed before the file is parsed
OpenAfterTitle ==
    /\ pc = "start"
    /\ pc' = "parse"
    /\ stdout' = Append(stdout, [kind |-> "title"])
    /\ UNCHANGED <<error, tracefile, parserVars, total_lines, total_covered,
                   overall_coverage, needed_for_80, file_coverage>>

\* open(filename, 'r') returns
Open ==
    /\ pc = "start"
    /\ pc' = "parse"
    /\ UNCHANGED <<error, tracefile, parserVars, reportVars>>

\* open(filename, 'r') raises
OpenFails ==
    /\ pc = "start"
    /\ pc' = "error"
    /\ error' = "OSError"
    /\ UNCHANGED <<tracefile, parserVars, reportVars>>

\* one iteration of for line in f, the file's next line being line
ReadLine(line) ==
    /\ pc = "parse"
    /\ LET st == ParseLine(Locals, line)
       IN /\ files' = st.files
          /\ keys' = st.keys
          /\ current_file' = st.current_file
          /\ in_lf' = st.in_lf
          /\ lf_count' = st.lf_count
          /\ lh_count' = st.lh_count
          /\ error' = st.error
          /\ pc' = IF st.error # "" THEN "error" ELSE "parse"
    /\ tracefile' = Append(tracefile, line)
    /\ UNCHANGED reportVars

\* the file is exhausted: parse_lcov returns files
EndOfFile ==
    /\ pc = "parse"
    /\ pc' = "partA"
    /\ UNCHANGED <<error, tracefile, parserVars, reportVars>>

\* the next line of a tracefile of arbitrary lines
ReadAnyLine ==
    \E line \in Lines : Len(tracefile) < MaxLines /\ ReadLine(line)

\* the next line of a tracefile of whole records
ReadRecordLine ==
    \E line \in RecordLines(tracefile) : ReadLine(line)

\* a tracefile of whole records ends after a record
EndOfRecords ==
    ~InRecord(tracefile) /\ EndOfFile

\* the header and the per-file table
PartA ==
    /\ pc = "partA"
    /\ LET names == sorted(DOMAIN files)
       IN /\ total_lines' = Accumulate(files, names, "total_lines")
          /\ total_covered' = Accumulate(files, names, "covered_lines")
          /\ stdout' = stdout \o <<[kind |-> "title"], [kind |-> "columns"],
                                   [kind |-> "rule"]>> \o Rows(files, names)
    /\ pc' = "partB"
    /\ UNCHANGED <<error, tracefile, parserVars, overall_coverage,
                   needed_for_80, file_coverage>>

\* the TOTAL row and the summary
PartB ==
    /\ pc = "partB"
    /\ overall_coverage' = Percent(total_covered, total_lines)
    /\ needed_for_80' = NeededFor80(total_covered, total_lines)
    /\ stdout' = stdout \o
          <<[kind |-> "rule"],
            [kind |-> "total", covered |-> total_covered, total |-> total_lines,
             coverage |-> overall_coverage', needed |-> needed_for_80'],
            [kind |-> "blank"],
            [kind |-> "current", coverage |-> overall_coverage'],
            [kind |-> "target", coverage |-> Ratio(80, 1)],
            [kind |-> "lines_needed", needed |-> Max0(needed_for_80')],
            [kind |-> "blank"]>>
    /\ pc' = "partC"
    /\ UNCHANGED <<error, tracefile, parserVars, total_lines, total_covered,
                   file_coverage>>

\* the files with the lowest coverage
PartC ==
    /\ pc = "partC"
    /\ file_coverage' = SortByCoverage(Candidates(files, keys))
    /\ stdout' = stdout \o <<[kind |-> "lowest_title"]>>
                        \o LowestLines(Shown(file_coverage'))
    /\ pc' = "done"
    /\ UNCHANGED <<error, tracefile, parserVars, total_lines, total_covered,
                   overall_coverage, needed_for_80>>

Next == Open \/ OpenFails \/ ReadAnyLine \/ EndOfFile \/ PartA \/ PartB \/ PartC

NextRecords ==
    Open \/ OpenFails \/ ReadRecordLine \/ EndOfRecords \/ PartA \/ PartB \/ PartC

NextReport == PartA \/ PartB \/ PartC

\* the script on a tracefile of arbitrary lines
Spec == Init /\ [][Next]_vars

\* the script on a tracefile made of whole records
SpecRecords == Init /\ [][NextRecords]_vars

\* the reporter on a parsed collection
SpecReport == InitReport /\ [][NextReport]_vars

-----------------------------------------------------------------------------
(* What the lines read so far say, without running the parser. *)

Directive(l, prefix) == startswith(strip(l), prefix)

\* the text after a directive's three-character prefix
Field(l) == SliceFrom(strip(l), 3)

\* the value of the last line of f that starts with prefix (0 when none)
LastValue(f, prefix) ==
    IF LastIndex(f, prefix) = 0 THEN 0 ELSE int(Field(f[LastIndex(f, prefix)]))

\* the path of the last SF line of f
DeclaredPath(f) == Field(f[LastIndex(f, "SF:")])

\* a current file is set: an SF line with a non-empty path was read
FileIsSet(f) == LastIndex(f, "SF:") > 0 /\ DeclaredPath(f) # ""

\* an LF line was read since the last SF line and since the last end_of_record
LFSeen(f) ==
    /\ LastIndex(f, "LF:") > LastIndex(f, "SF:")
    /\ LastIndex(f, "LF:") > LastIndex(f, "end_of_record")

\* the first n lines of f
Upto(f, n) == SubSeq(f, 1, n)

\* line j of f is an end_of_record that stores the counters for path
CommitAt(f, j, path) ==
    /\ Directive(f[j], "end_of_record")
    /\ FileIsSet(Upto(f, j - 1))
    /\ DeclaredPath(Upto(f, j - 1)) = path
    /\ LFSeen(Upto(f, j - 1))

\* a file's total_lines and covered_lines, zero for a file not in the dict
TotalsOf(fs, k) ==
    IF k \in DOMAIN fs THEN <<fs[k].total_lines, fs[k].covered_lines>> ELSE <<0, 0>>

HitsOf(fs, k) == IF k \in DOMAIN fs THEN fs[k].lines ELSE <<>>

\* a recognized directive whose line number, hit count or count is no integer
BadNumber(l) ==
    \/ (Directive(l, "LF:") \/ Directive(l, "LH:")) /\ ~IntOk(Field(l))
    \/ /\ Directive(l, "DA:")
       /\ LET parts == split(Field(l), ",")
          IN ~IntOk(parts[1]) \/ (Len(parts) > 1 /\ ~IntOk(parts[2]))

-----------------------------------------------------------------------------
C2_NoOutputOnFailure ==
    /\ (error # "" => pc = "error" /\ stdout = <<>>)
    /\ (pc \in {"start", "parse", "error"} => stdout = <<>>)
    /\ (stdout # <<>> => \A i \in 1..Len(tracefile) :
            BadNumber(tracefile[i]) =>
                Directive(tracefile[i], "DA:") /\ ~FileIsSet(Upto(tracefile, i - 1)))

\* a parse failure in the last of several lines, after a file was recorded
C2_Witness ==
    /\ error = "ValueError"
    /\ Len(tracefile) >= 3
    /\ DOMAIN files # {}

(* C3 as claimed: every line with a recognized prefix and a numeric field   *)
(* that is no integer aborts the run, whatever came before it.              *)
C3_EveryBadLineAborts ==
    \A i \in 1..Len(tracefile) :
        BadNumber(tracefile[i]) => i = Len(tracefile) /\ error = "ValueError"

(* C3, amended: every LF: or LH: line whose field is no integer aborts the  *)
(* run, and so does a DA: line whose line number or hit count is no integer *)
(* when a current file is set; a DA: line read while no current file is set *)
(* (before any SF: line, or after an SF: line with an empty path) is        *)
(* skipped unparsed and aborts nothing.                                     *)
C3_BadLineAbortsUnlessSkipped ==
    \A i \in 1..Len(tracefile) :
        BadNumber(tracefile[i]) =>
            IF Directive(tracefile[i], "DA:") /\ ~FileIsSet(Upto(tracefile, i - 1))
            THEN i < Len(tracefile) \/ error = ""
            ELSE i = Len(tracefile) /\ error = "ValueError"

\* a malformed DA: line was skipped and a later malformed line aborted the run
C3_Witness ==
    /\ error = "ValueError"
    /\ \E i \in 1..(Len(tracefile) - 1) : BadNumber(tracefile[i])

\* lines i..j of f are a record: an SF line up to its end_of_record
IsRecord(f, i, j) ==
    /\ i < j
    /\ Directive(f[i], "SF:")
    /\ Directive(f[j], "end_of_record")
    /\ \A m \in (i + 1)..(j - 1) :
          ~Directive(f[m], "SF:") /\ ~Directive(f[m], "end_of_record")

\* f without its lines i..j
Without(f, i, j) == Upto(f, i - 1) \o SubSeq(f, j + 1, Len(f))

\* the running totals main ends with on tracefile f
ReportTotals(f) ==
    LET fs == parse_lcov(f).files
    IN <<Accumulate(fs, sorted(DOMAIN fs), "total_lines"),
         Accumulate(fs, sorted(DOMAIN fs), "covered_lines")>>

(* C4 as claimed: a record without an LF line adds nothing to the totals:   *)
(* its end_of_record leaves the file's total_lines/covered_lines as they    *)
(* were, main's running totals are those of the tracefile without the       *)
(* record, and each DA line of the record is stored in the file's line      *)
(* hits.                                                                    *)
C4_RecordWithoutLFAddsNothing ==
    pc = "done" =>
        \A i, j \in 1..Len(tracefile) :
            (/\ IsRecord(tracefile, i, j)
             /\ \A m \in i..j : ~Directive(tracefile[m], "LF:")) =>
                /\ TotalsOf(parse_upto(tracefile, j).files, Field(tracefile[i])) =
                      TotalsOf(parse_upto(tracefile, i).files, Field(tracefile[i]))
                /\ <<total_lines, total_covered>> =
                      ReportTotals(Without(tracefile, i, j))
                /\ \A m \in i..j :
                      Directive(tracefile[m], "DA:") =>
                          LET parts == split(Field(tracefile[m]), ",")
                              hits == HitsOf(parse_upto(tracefile, m).files,
                                             Field(tracefile[i]))
                          IN /\ int(parts[1]) \in DOMAIN hits
                             /\ hits[int(parts[1])] = int(parts[2])

\* the end_of_record lines of f that store the counters for path
CommitsFor(f, path) == {j \in 1..Len(f) : CommitAt(f, j, path)}

Greatest(S) == CHOOSE x \in S : \A y \in S : y <= x

(* C9: when several records declare the same path, the file's total_lines   *)
(* and covered_lines are the LF and LH values stored by the last record of  *)
(* that path that stored any, not a sum over the records; a later record    *)
(* of the path that stores nothing leaves them as they were.                *)
C9_LastCommitWins ==
    error = "" =>
        \A path \in RecordPaths \cup DOMAIN files :
            LET stored == CommitsFor(tracefile, path)
                before == Upto(tracefile, Greatest(stored) - 1)
            IN IF stored = {}
               THEN TotalsOf(files, path) = <<0, 0>>
               ELSE TotalsOf(files, path) =
                       <<LastValue(before, "LF:"), LastValue(before, "LH:")>>

\* a path stored twice with different values, then declared by a record that
\* stores nothing
C9_Witness ==
    /\ pc = "done"
    /\ \E path \in DOMAIN files :
          /\ Cardinality(CommitsFor(tracefile, path)) = 2
          /\ Count(tracefile, "SF:" \o path) = 3
          /\ ~CommitAt(tracefile, Len(tracefile), path)
          /\ TotalsOf(files, path) = <<5, 4>>
          /\ \E j \in CommitsFor(tracefile, path) :
                LastValue(Upto(tracefile, j - 1), "LF:") = 2

(* C10: no SF line and no end_of_record resets lf_count or lh_count: they   *)
(* hold the values of the last LF and LH lines read anywhere before (0 when *)
(* none), so an end_of_record stores as covered_lines the value of the last *)
(* LH line of the tracefile so far, also when that line belongs to an       *)
(* earlier record, and covered_lines may exceed total_lines.                *)
C10_CountersNeverReset ==
    error = "" =>
        /\ lf_count = LastValue(tracefile, "LF:")
        /\ lh_count = LastValue(tracefile, "LH:")
        /\ \A path \in DOMAIN files :
              (pc = "parse" /\ tracefile # <<>>
                 /\ CommitAt(tracefile, Len(tracefile), path)) =>
                  files[path].covered_lines = LastValue(tracefile, "LH:")

\* a record with an LF line and no LH line has just stored the covered count
\* of an earlier record, which exceeds its total
C10_Witness ==
    /\ pc = "parse"
    /\ tracefile # <<>>
    /\ \E path \in DOMAIN files :
          /\ CommitAt(tracefile, Len(tracefile), path)
          /\ 0 < LastIndex(tracefile, "LH:")
          /\ LastIndex(tracefile, "LH:") < LastIndex(tracefile, "SF:")
          /\ LastIndex(Upto(tracefile, LastIndex(tracefile, "SF:")), "end_of_record")
                > LastIndex(tracefile, "LH:")
          /\ files[path].covered_lines > files[path].total_lines

-----------------------------------------------------------------------------
(* What the report must say, from the parsed collection alone. *)

\* the sum of field f over the files named in S
RECURSIVE SumOver(_, _, _)
SumOver(fs, S, f) ==
    IF S = {} THEN 0
    ELSE LET k == CHOOSE x \in S : TRUE
         IN fs[k][f] + SumOver(fs, S \ {k}, f)

\* the files with lines
Positive(fs) == {k \in DOMAIN fs : fs[k].total_lines > 0}

\* the entries of the given kind main printed, in order
Printed(kind) == SelectSeq(stdout, LAMBDA e : e.kind = kind)

\* floor(n * 0.8)
Floor80(n) == (4 * n) \div 5

\* n * 0.8 with its fraction dropped: the floor, one more below zero unless exact
Trunc80(n) ==
    IF n >= 0 \/ (4 * n) % 5 = 0 THEN Floor80(n) ELSE Floor80(n) + 1

\* where path stands in the dict's insertion order
KeyIndex(path) == CHOOSE i \in 1..Len(keys) : keys[i] = path

\* covered/total*100 of a file with lines
PercentOf(fs, k) == Ratio(100 * fs[k].covered_lines, fs[k].total_lines)

(* C5 as claimed: the overall coverage is sum(covered)/sum(total)*100 over  *)
(* the files with total > 0 only (0 when that total is 0).                  *)
C5_OverallOverPositiveFiles ==
    pc \in {"partC", "done"} =>
        LET t == SumOver(files, Positive(files), "total_lines")
            c == SumOver(files, Positive(files), "covered_lines")
        IN /\ RatEq(overall_coverage,
                    IF t > 0 THEN Ratio(100 * c, t) ELSE Ratio(0, 1))
           /\ \A i \in 1..Len(Printed("current")) :
                 Printed("current")[i].coverage = overall_coverage

(* C5, amended: the overall coverage is sum(covered)/sum(total)*100 over    *)
(* all parsed files, and 0 when that total is not positive: a file with     *)
(* total = 0 adds nothing to the denominator, but its covered_lines are     *)
(* added to the numerator.                                                  *)
C5_OverallOverAllFiles ==
    pc \in {"partC", "done"} =>
        LET t == SumOver(files, DOMAIN files, "total_lines")
            c == SumOver(files, DOMAIN files, "covered_lines")
        IN /\ RatEq(overall_coverage,
                    IF t > 0 THEN Ratio(100 * c, t) ELSE Ratio(0, 1))
           /\ Len(Printed("current")) = 1
           /\ Printed("current")[1].coverage = overall_coverage
           /\ Len(Printed("total")) = 1
           /\ Printed("total")[1].coverage = overall_coverage

\* a report over files with lines and a file with covered lines but no lines
C5_Witness ==
    /\ pc = "done"
    /\ total_lines > 0
    /\ \E k \in DOMAIN files :
          files[k].total_lines = 0 /\ files[k].covered_lines > 0

C7_LinesNeededByFloor ==
    pc \in {"partC", "done"} =>
        /\ Len(Printed("lines_needed")) = 1
        /\ Printed("lines_needed")[1].needed =
              Max0(Floor80(SumOver(files, DOMAIN files, "total_lines"))
                   - SumOver(files, DOMAIN files, "covered_lines"))

(* C7, amended: Lines Needed is max(0, int(sum_total * 0.8) - sum_covered)  *)
(* over all parsed files, int() dropping the fraction towards zero, which   *)
(* is the floor when sum_total >= 0; it is never negative, and it is 0      *)
(* whenever sum_covered is at least int(sum_total * 0.8).                   *)
C7_LinesNeededClamped ==
    pc \in {"partC", "done"} =>
        LET t == SumOver(files, DOMAIN files, "total_lines")
            c == SumOver(files, DOMAIN files, "covered_lines")
            shown == Printed("lines_needed")
        IN /\ Len(shown) = 1
           /\ shown[1].needed = (IF Trunc80(t) - c > 0 THEN Trunc80(t) - c ELSE 0)
           /\ shown[1].needed >= 0
           /\ (c >= Trunc80(t) => shown[1].needed = 0)
           /\ (t >= 0 => shown[1].needed =
                            (IF Floor80(t) - c > 0 THEN Floor80(t) - c ELSE 0))

\* a report whose aggregate gap is negative and is shown as 0
C7_Witness ==
    /\ pc = "done"
    /\ total_lines > 0
    /\ needed_for_80 < 0
    /\ Printed("lines_needed")[1].needed = 0

(* C8 as claimed: each file's To 80% is floor(total * 0.8) - covered.       *)
C8_RowNeededByFloor ==
    pc \in {"partB", "partC", "done"} =>
        \A k \in DOMAIN files :
            \E i \in 1..Len(Printed("row")) :
                /\ Printed("row")[i].name = k
                /\ Printed("row")[i].needed =
                      Floor80(files[k].total_lines) - files[k].covered_lines

(* C8, amended: each file's To 80% is int(total * 0.8) - covered from the   *)
(* file's stored total_lines and covered_lines, int() dropping the fraction *)
(* towards zero, which is floor(total * 0.8) - covered when total >= 0; it  *)
(* is not clamped (negative for a file above the target); total=100,        *)
(* covered=80 gives 0 and total=50, covered=10 gives 30.                    *)
C8_RowNeededUnclamped ==
    /\ NeededFor80(80, 100) = 0
    /\ NeededFor80(10, 50) = 30
    /\ pc \in {"partB", "partC", "done"} =>
          /\ Len(Printed("row")) = Cardinality(DOMAIN files)
          /\ \A k \in DOMAIN files :
                \E i \in 1..Len(Printed("row")) :
                    LET row == Printed("row")[i]
                    IN /\ row.name = k
                       /\ row.total = files[k].total_lines
                       /\ row.covered = files[k].covered_lines
                       /\ row.needed = Trunc80(row.total) - row.covered
                       /\ (row.total >= 0 =>
                              row.needed = Floor80(row.total) - row.covered)

\* a table with a row of 50 lines, 10 covered, 30 needed, and a row with a
\* negative gap
C8_Witness ==
    /\ pc = "done"
    /\ \E i, j \in 1..Len(Printed("row")) :
          /\ Printed("row")[i].total = 50
          /\ Printed("row")[i].covered = 10
          /\ Printed("row")[i].needed = 30
          /\ Printed("row")[j].needed < 0

=============================================================================
